---- MODULE Spec2Model ----
(***************************************************************************)
(* Model of csa/utils/logger.py: setup_logger / get_logger (the log        *)
(* configurator) and cleanup_old_logs (the stale-log reaper), together     *)
(* with the parts of the process environment they read and write: the      *)
(* LOG_LEVEL environment variable, the wall clock and the "logs"           *)
(* directory.                                                              *)
(***************************************************************************)
EXTENDS Integers, Sequences, FiniteSets, TLC

VARIABLES
    env,        \* os.environ["LOG_LEVEL"]: a sequence of characters, or Absent
    now,        \* the wall clock, in seconds (time.time(), datetime.now())
    loggers,    \* the logging module's registry: name -> [level, handlers, propagate]
    dirExists,  \* whether the directory "logs" exists
    files,      \* the entries below "logs": a set of [name, kind, mtime]
    pc,         \* position of the thread inside setup_logger
    call,       \* arguments and locals of the running (or most recent) call
    pending,    \* cleanup_old_logs: entries the glob listed, not yet visited
    hist,       \* observations of the running (or most recent) call
    prev,       \* what the setup_logger call before the most recent one left behind
    used        \* how much of each bound the behaviour has used

vars == <<env, now, loggers, dirExists, files, pc, call, pending, hist, prev, used>>

----------------------------------------------------------------------------
(* Bounds of the model *)

MaxTicks == 1       \* clock advances in one behaviour
MaxRemovals == 1    \* files another process removes in one behaviour

----------------------------------------------------------------------------
(* Strings are sequences of one-character strings *)

Lower == <<"a","b","c","d","e","f","g","h","i","j","k","l","m",
           "n","o","p","q","r","s","t","u","v","w","x","y","z">>
Upper == <<"A","B","C","D","E","F","G","H","I","J","K","L","M",
           "N","O","P","Q","R","S","T","U","V","W","X","Y","Z">>
Whitespace == {" ", "\t", "\n", "\r"}

\* str.upper(): every cased character is replaced by its uppercase form
UpperChar(c) ==
    IF \E i \in 1..Len(Lower) : Lower[i] = c
    THEN Upper[CHOOSE i \in 1..Len(Lower) : Lower[i] = c]
    ELSE c

StrUpper(s) == [i \in 1..Len(s) |-> UpperChar(s[i])]

RECURSIVE LStrip(_)
LStrip(s) ==
    IF s # <<>> /\ Head(s) \in Whitespace THEN LStrip(Tail(s)) ELSE s

RECURSIVE RStrip(_)
RStrip(s) ==
    IF s # <<>> /\ s[Len(s)] \in Whitespace
    THEN RStrip(SubSeq(s, 1, Len(s) - 1))
    ELSE s

\* str.strip(): leading and trailing whitespace removed
StrStrip(s) == RStrip(LStrip(s))

----------------------------------------------------------------------------
(* Levels of the logging module *)

NOTSET == 0
DEBUG == 10
INFO == 20
WARNING == 30
ERROR == 40
CRITICAL == 50

\* log_levels: the dictionary of setup_logger
LevelNames == { <<"D","E","B","U","G">>,
                <<"I","N","F","O">>,
                <<"W","A","R","N","I","N","G">>,
                <<"E","R","R","O","R">>,
                <<"C","R","I","T","I","C","A","L">> }

log_levels(k) ==
    CASE k = <<"D","E","B","U","G">> -> DEBUG
      [] k = <<"I","N","F","O">> -> INFO
      [] k = <<"W","A","R","N","I","N","G">> -> WARNING
      [] k = <<"E","R","R","O","R">> -> ERROR
      [] k = <<"C","R","I","T","I","C","A","L">> -> CRITICAL

Absent == <<"<", "unset", ">">>

\* os.getenv("LOG_LEVEL", "INFO")
GetEnv(e) == IF e = Absent THEN <<"I","N","F","O">> ELSE e

\* A resolution that forgets to trim the value
ResolveLevelNoStrip(e) ==
    LET log_level_str == StrUpper(GetEnv(e))
    IN  IF log_level_str \in LevelNames THEN log_levels(log_level_str) ELSE INFO

\* log_level_str = os.getenv("LOG_LEVEL", "INFO").strip().upper()
\* log_level = log_levels.get(log_level_str, logging.INFO)
ResolveLevel(e) ==
    LET log_level_str == StrUpper(StrStrip(GetEnv(e)))
    IN  IF log_level_str \in LevelNames THEN log_levels(log_level_str) ELSE INFO

----------------------------------------------------------------------------
(* Values LOG_LEVEL takes in the model: a word, in some casing, padded *)

Words == { <<"d","e","b","u","g">>,
           <<"i","n","f","o">>,
           <<"w","a","r","n","i","n","g">>,
           <<"e","r","r","o","r">>,
           <<"c","r","i","t","i","c","a","l">>,
           <<"w","a","r","n">>,
           <<"d","e"," ","b","u","g">>,
           <<"1","0">>,
           <<>> }

Casings == {"lower", "upper", "title"}

Cased(w, m) ==
    [i \in 1..Len(w) |->
        CASE m = "lower" -> w[i]
          [] m = "upper" -> UpperChar(w[i])
          [] m = "title" -> IF i = 1 THEN UpperChar(w[i]) ELSE w[i]]

Pads == { <<>>, <<" ">>, <<"\t", " ">>, <<"\n">> }

EnvValues ==
    {Absent} \cup
    { l \o Cased(w, m) \o r : w \in Words, m \in Casings, l \in Pads, r \in Pads }

\* The values the environment takes between calls of the configurator
EnvChoices ==
    { Absent,
      <<" ", "d","e","b","u","g", "\n">> }

----------------------------------------------------------------------------
(* The clock and the "logs" directory *)

SecondsPerDay == 24 * 60 * 60

\* cutoff_time = current_time - (days * 24 * 60 * 60)
CutoffTime(current_time, days) == current_time - (days * 24 * 60 * 60)

\* datetime.now().strftime("%Y%m%d"): the calendar day of the clock
LogDate(t) == t \div SecondsPerDay

NoDate == 0 - 1

\* log_dir = "logs"
LogDir == "logs"

\* log_filepath = os.path.join(log_dir, f"{command_name}-{log_date}.log")
LogFilePath(command_name, log_date) ==
    [dir |-> LogDir, base |-> command_name, date |-> log_date, ext |-> ".log"]

T0 == 30 * SecondsPerDay

Entry(dir, base, date, ext, kind, mtime) ==
    [name |-> [dir |-> dir, base |-> base, date |-> date, ext |-> ext],
     kind |-> kind, mtime |-> mtime]

\* A "logs" directory with one log file older than a week
SmallEntries ==
    { Entry("logs", "analyze", 22, ".log", "file", T0 - 7 * SecondsPerDay - 1),
      Entry("logs", "readme", NoDate, ".txt", "file", T0 - 9 * SecondsPerDay) }

\* A "logs" directory with entries of every kind and age
InitialEntries ==
    { Entry("logs", "analyze", 22, ".log", "file", T0 - 7 * SecondsPerDay - 1),
      Entry("logs", "analyze", 23, ".log", "file", T0 - 7 * SecondsPerDay),
      Entry("logs", "sequence", 29, ".log", "file", T0 - SecondsPerDay),
      Entry("logs", "notes", NoDate, ".log", "file", T0 - 9 * SecondsPerDay),
      Entry("logs", "readme", NoDate, ".txt", "file", T0 - 9 * SecondsPerDay),
      Entry("logs", "archive", NoDate, "", "dir", T0 - 9 * SecondsPerDay),
      Entry("logs/archive", "analyze", 10, ".log", "file", T0 - 20 * SecondsPerDay),
      Entry("logs", "backup", NoDate, ".log", "dir", T0 - 9 * SecondsPerDay) }

Names(fs) == { f.name : f \in fs }

Lookup(fs, n) == CHOOSE f \in fs : f.name = n

\* os.path.exists(log_dir)
PathExists(log_dir, de) == log_dir = LogDir /\ de

\* A glob that also descends into subdirectories
GlobRecursive(log_dir, fs) ==
    { f.name : f \in { g \in fs : g.name.ext = ".log" } }

\* Path(log_dir).glob("*.log"): the entries directly in log_dir whose name ends in .log
Glob(log_dir, fs) ==
    { f.name : f \in { g \in fs : g.name.dir = log_dir /\ g.name.ext = ".log" } }

\* log_file.stat().st_mtime < cutoff_time
IsStaleLe(mtime, cutoff_time) == mtime <= cutoff_time

IsStale(mtime, cutoff_time) == mtime < cutoff_time

----------------------------------------------------------------------------
(* Loggers and handlers *)

LoggerNames == {"csa"}

None == "<None>"
CommandNames == {None, "", "analyze"}

\* A test that takes the empty string for a command
TruthyNotNone(command_name) == command_name # None

\* if command_name:
Truthy(command_name) == command_name # None /\ command_name # ""

NoPath == [dir |-> "", base |-> "", date |-> NoDate, ext |-> ""]

\* logging.getLogger(name) the first time: the logger as the logging module builds it
NewLogger(name) ==
    [level |-> IF name = "root" THEN WARNING ELSE NOTSET,
     handlers |-> <<>>,
     propagate |-> TRUE]

\* logging.StreamHandler() followed by setLevel(log_level)
StreamHandler(log_level) == [kind |-> "console", level |-> log_level, path |-> NoPath]

\* A file handler whose setLevel was forgotten
FileHandlerNoLevel(log_filepath, log_level) ==
    [kind |-> "file", level |-> NOTSET, path |-> log_filepath]

\* logging.FileHandler(log_filepath, mode='a', encoding='utf-8') followed by setLevel(log_level)
FileHandler(log_filepath, log_level) ==
    [kind |-> "file", level |-> log_level, path |-> log_filepath]

\* Handlers that are kept across calls
KeepHandlers(handlers) == handlers

\* if logger.handlers: logger.handlers.clear()
ClearHandlers(handlers) == IF handlers # <<>> THEN <<>> ELSE handlers

\* logger.addHandler(h)
AddHandler(handlers, h) == Append(handlers, h)

CountKind(handlers, k) == Cardinality({ i \in 1..Len(handlers) : handlers[i].kind = k })

----------------------------------------------------------------------------
(* The initial states *)

NoCall ==
    [fn |-> "none", name |-> "csa", command_name |-> None, log_level |-> NOTSET,
     log_dir |-> LogDir, days |-> 0, current_time |-> 0, cutoff_time |-> 0,
     log_file |-> NoPath]

NoHist ==
    [env |-> Absent, outcome |-> "none", date |-> NoDate, dirEnsured |-> FALSE,
     reaperRuns |-> 0, reaperDone |-> FALSE, listed |-> {}, reaped |-> {},
     failed |-> {}, opened |-> NoPath]

NoPrev ==
    [name |-> "csa", command_name |-> None, env |-> Absent, date |-> NoDate,
     outcome |-> "none", logger |-> NewLogger("csa")]

InitWith(envs, entries) ==
    /\ env \in envs
    /\ now = T0
    /\ loggers = [n \in LoggerNames |-> NewLogger(n)]
    /\ dirExists \in BOOLEAN
    /\ files = IF dirExists THEN entries ELSE {}
    /\ pc = "idle"
    /\ call = NoCall
    /\ pending = {}
    /\ hist = NoHist
    /\ prev = NoPrev
    /\ used = [ticks |-> 0, removals |-> 0]

Init == InitWith(EnvChoices, SmallEntries)

----------------------------------------------------------------------------
(* setup_logger *)

\* What the most recent setup_logger call left behind, when it has ended
Snapshot ==
    IF call.fn = "setup_logger"
    THEN [name |-> call.name, command_name |-> call.command_name, env |-> hist.env,
          date |-> hist.date, outcome |-> hist.outcome, logger |-> loggers[call.name]]
    ELSE prev

\* A configuration that adds to the handlers of earlier calls
ConfigureNoClear(logger, log_level) ==
    [level |-> log_level,
     handlers |-> AddHandler(KeepHandlers(logger.handlers), StreamHandler(log_level)),
     propagate |-> logger.propagate]

\* logger.setLevel(log_level); the handlers cleared; the console handler added
Configure(logger, log_level) ==
    [level |-> log_level,
     handlers |-> AddHandler(ClearHandlers(logger.handlers), StreamHandler(log_level)),
     propagate |-> logger.propagate]

\* logger.propagate = False
DisablePropagation(logger) == [logger EXCEPT !.propagate = FALSE]

\* The call up to the test of command_name; without a command it runs to its return
SetupLoggerEntry(name, command_name) ==
    /\ pc = "idle"
    /\ LET log_level == ResolveLevel(env)
           logger == Configure(loggers[name], log_level)
           h == [NoHist EXCEPT !.env = env, !.date = LogDate(now)]
       IN  /\ call' = [NoCall EXCEPT !.fn = "setup_logger", !.name = name,
                                     !.command_name = command_name,
                                     !.log_level = log_level]
           /\ IF Truthy(command_name)
              THEN /\ loggers' = [loggers EXCEPT ![name] = logger]
                   /\ pc' = "makedirs"
                   /\ hist' = [h EXCEPT !.outcome = "running"]
              ELSE /\ loggers' = [loggers EXCEPT ![name] = DisablePropagation(logger)]
                   /\ pc' = "idle"
                   /\ hist' = [h EXCEPT !.outcome = "returned"]
    /\ prev' = Snapshot
    /\ UNCHANGED <<env, now, dirExists, files, pending, used>>

setup_logger(name, command_name) == SetupLoggerEntry(name, command_name)

get_logger(name, command_name) == setup_logger(name, command_name)

\* An exception leaves the running call: it ends where it is
Raise ==
    /\ pc' = "idle"
    /\ hist' = [hist EXCEPT !.outcome = "raised", !.date = LogDate(now)]

\* os.makedirs that goes on to open the file without calling the reaper
MakeDirsNoCleanup ==
    /\ pc = "makedirs"
    /\ \/ /\ dirExists' = TRUE
          /\ pc' = "open"
          /\ hist' = [hist EXCEPT !.dirEnsured = TRUE]
       \/ /\ ~dirExists
          /\ Raise
          /\ UNCHANGED dirExists
    /\ UNCHANGED <<env, now, loggers, files, call, pending, prev, used>>

\* os.makedirs(log_dir, exist_ok=True); then cleanup_old_logs(log_dir, days=7) is called
MakeDirs ==
    /\ pc = "makedirs"
    /\ \/ /\ dirExists' = TRUE
          /\ pc' = "cleanup"
          /\ hist' = [hist EXCEPT !.dirEnsured = TRUE]
          /\ call' = [call EXCEPT !.log_dir = LogDir, !.days = 7]
       \/ /\ ~dirExists
          /\ Raise
          /\ UNCHANGED <<dirExists, call>>
    /\ UNCHANGED <<env, now, loggers, files, pending, prev, used>>

----------------------------------------------------------------------------
(* cleanup_old_logs *)

Days == {1, 7}

\* A direct call of cleanup_old_logs(log_dir, days)
cleanup_old_logs(log_dir, days) ==
    /\ pc = "idle"
    /\ call' = [NoCall EXCEPT !.fn = "cleanup_old_logs", !.log_dir = log_dir,
                              !.days = days]
    /\ hist' = [NoHist EXCEPT !.outcome = "running"]
    /\ pc' = "cleanup"
    /\ prev' = Snapshot
    /\ UNCHANGED <<env, now, loggers, dirExists, files, pending, used>>

\* cleanup_old_logs returns to its caller
CleanupReturn(h) ==
    IF call.fn = "setup_logger"
    THEN /\ pc' = "open"
         /\ hist' = [h EXCEPT !.reaperDone = TRUE]
    ELSE /\ pc' = "idle"
         /\ hist' = [h EXCEPT !.reaperDone = TRUE, !.outcome = "returned"]

\* The existence test, the cutoff and the listing of the glob
CleanupEnter ==
    /\ pc = "cleanup"
    /\ LET h == [hist EXCEPT !.reaperRuns = @ + 1]
       IN  IF ~PathExists(call.log_dir, dirExists)
           THEN /\ CleanupReturn(h)
                /\ UNCHANGED <<call, pending>>
           ELSE /\ call' = [call EXCEPT !.current_time = now,
                                        !.cutoff_time = CutoffTime(now, call.days)]
                /\ pending' = Glob(call.log_dir, files)
                /\ hist' = [h EXCEPT !.listed =
                               { f \in files : f.name \in Glob(call.log_dir, files) }]
                /\ pc' = "loop"
    /\ UNCHANGED <<env, now, loggers, dirExists, files, prev, used>>

\* The for statement finds no further file
CleanupExit ==
    /\ pc = "loop"
    /\ pending = {}
    /\ CleanupReturn(hist)
    /\ UNCHANGED <<env, now, loggers, dirExists, files, call, pending, prev, used>>

\* if log_file.stat().st_mtime < cutoff_time: the stat is outside the try
CleanupVisit ==
    /\ pc = "loop"
    /\ \E n \in pending :
          /\ pending' = pending \ {n}
          /\ call' = [call EXCEPT !.log_file = n]
          /\ IF n \notin Names(files)
             THEN Raise
             ELSE /\ pc' = IF IsStale(Lookup(files, n).mtime, call.cutoff_time)
                           THEN "unlink" ELSE "loop"
                  /\ UNCHANGED hist
    /\ UNCHANGED <<env, now, loggers, dirExists, files, prev, used>>

\* try: log_file.unlink() except Exception: pass
CleanupUnlink ==
    /\ pc = "unlink"
    /\ LET n == call.log_file
       IN  \/ /\ n \in Names(files)
              /\ Lookup(files, n).kind = "file"
              /\ files' = files \ {Lookup(files, n)}
              /\ hist' = [hist EXCEPT !.reaped = @ \cup {n}]
           \/ /\ files' = files
              /\ hist' = [hist EXCEPT !.failed = @ \cup {n}]
    /\ pc' = "loop"
    /\ UNCHANGED <<env, now, loggers, dirExists, call, pending, prev, used>>

----------------------------------------------------------------------------
(* setup_logger, after the reaper *)

\* The file the handler opens in append mode: created when it is not there
Touch(fs, log_filepath, t) ==
    IF log_filepath \in Names(fs)
    THEN fs
    ELSE fs \cup {[name |-> log_filepath, kind |-> "file", mtime |-> t]}

\* log_date, log_filepath, the file handler, propagate = False, return
OpenLogFile ==
    /\ pc = "open"
    /\ LET log_date == LogDate(now)
           log_filepath == LogFilePath(call.command_name, log_date)
           file_handler == FileHandler(log_filepath, call.log_level)
           logger == DisablePropagation(
                        [loggers[call.name] EXCEPT
                            !.handlers = AddHandler(@, file_handler)])
       IN  \/ /\ \A f \in files : f.name = log_filepath => f.kind = "file"
              /\ files' = Touch(files, log_filepath, now)
              /\ loggers' = [loggers EXCEPT ![call.name] = logger]
              /\ pc' = "idle"
              /\ hist' = [hist EXCEPT !.outcome = "returned", !.date = log_date,
                                      !.opened = log_filepath]
           \/ /\ Raise
              /\ UNCHANGED <<files, loggers>>
    /\ UNCHANGED <<env, now, dirExists, call, pending, prev, used>>

----------------------------------------------------------------------------
(* The environment of the process *)

\* os.environ["LOG_LEVEL"] is set or deleted between two calls
SetEnv(v) ==
    /\ pc = "idle"
    /\ v # env
    /\ env' = v
    /\ UNCHANGED <<now, loggers, dirExists, files, pc, call, pending, hist, prev, used>>

\* The clock advances by a second or by a day. The program reads the clock when it
\* is called, when the reaper starts and when the file name is built: an advance
\* anywhere else is seen as an advance before the next of these.
Tick(d) ==
    /\ pc \in {"idle", "cleanup", "open"}
    /\ used.ticks < MaxTicks
    /\ now' = now + d
    /\ used' = [used EXCEPT !.ticks = @ + 1]
    /\ UNCHANGED <<env, loggers, dirExists, files, pc, call, pending, hist, prev>>

\* Another process removes a log file of the directory
OtherRemoves(n) ==
    /\ used.removals < MaxRemovals
    /\ n \in Glob(LogDir, files)
    /\ Lookup(files, n).kind = "file"
    /\ files' = files \ {Lookup(files, n)}
    /\ used' = [used EXCEPT !.removals = @ + 1]
    /\ UNCHANGED <<env, now, loggers, dirExists, pc, call, pending, hist, prev>>

Next ==
    \/ \E name \in LoggerNames, c \in CommandNames : setup_logger(name, c)
    \/ \E name \in LoggerNames, c \in CommandNames : get_logger(name, c)
    \/ MakeDirs
    \/ CleanupEnter
    \/ CleanupVisit
    \/ CleanupUnlink
    \/ CleanupExit
    \/ OpenLogFile
    \/ \E v \in EnvChoices : SetEnv(v)
    \/ \E d \in {SecondsPerDay} : Tick(d)
    \/ \E n \in Names(files) : OtherRemoves(n)

Spec == Init /\ [][Next]_vars

\* The reaper called on its own, on a directory with entries of every kind
InitReaper == InitWith({Absent}, InitialEntries)

NextReaper ==
    \/ \E d \in Days : cleanup_old_logs(LogDir, d)
    \/ CleanupEnter
    \/ CleanupVisit
    \/ CleanupUnlink
    \/ CleanupExit
    \/ \E d \in {1, SecondsPerDay} : Tick(d)
    \/ \E n \in Names(files) : OtherRemoves(n)

SpecReaper == InitReaper /\ [][NextReaper]_vars

\* The level resolution on every value of LOG_LEVEL
InitLevel == InitWith(EnvValues, {})

NextLevel ==
    \/ \E name \in LoggerNames, c \in {None, ""} : setup_logger(name, c)
    \/ \E name \in LoggerNames, c \in {None, ""} : get_logger(name, c)

SpecLevel == InitLevel /\ [][NextLevel]_vars

----------------------------------------------------------------------------
(* Properties *)

\* The most recent call was setup_logger (or get_logger) and it has ended
Ended == pc = "idle" /\ call.fn = "setup_logger"

TheLogger == loggers[call.name]

\* c is the letter d of a level name, in either case
SameLetter(c, d) ==
    \E i \in 1..Len(Upper) : d = Upper[i] /\ (c = Upper[i] \/ c = Lower[i])

\* s is the level name, in any case, between two runs of whitespace
MatchesName(s, name) ==
    \E i \in 0..Len(s) :
        /\ i + Len(name) <= Len(s)
        /\ \A k \in 1..i : s[k] \in Whitespace
        /\ \A k \in (i + Len(name) + 1)..Len(s) : s[k] \in Whitespace
        /\ \A k \in 1..Len(name) : SameLetter(s[i + k], name[k])

\* C1: a value of LOG_LEVEL that is a level name after trimming and ignoring case
\* gives the logger that level; every other value, and an absent LOG_LEVEL, gives
\* INFO; the call returns.
C1_LevelResolution ==
    Ended =>
        /\ hist.outcome = "returned"
        /\ \A name \in LevelNames :
              (hist.env # Absent /\ MatchesName(hist.env, name))
                  => TheLogger.level = log_levels(name)
        /\ (hist.env = Absent \/ \A name \in LevelNames : ~MatchesName(hist.env, name))
              => TheLogger.level = INFO

C1_Witness ==
    /\ Ended
    /\ hist.env # Absent
    /\ MatchesName(hist.env, <<"W","A","R","N","I","N","G">>)
    /\ Len(hist.env) > 7
    /\ hist.env[Len(hist.env) - 1] = "g"
    /\ TheLogger.level = WARNING

\* C2 as stated: after a call, one console sink, plus one file sink exactly when
\* the call supplied a command identifier.
C2_SinksAsStated ==
    Ended =>
        /\ CountKind(TheLogger.handlers, "console") = 1
        /\ CountKind(TheLogger.handlers, "file") =
               (IF Truthy(call.command_name) THEN 1 ELSE 0)
        /\ Len(TheLogger.handlers) =
               1 + (IF Truthy(call.command_name) THEN 1 ELSE 0)

\* C2, amended: once setup_logger has been called the logger holds exactly one
\* console sink, and one file sink exactly when the most recent call supplied a
\* non-empty command identifier and has returned; it holds nothing else.
C2_Sinks ==
    call.fn = "setup_logger" =>
        LET nfile == IF Ended /\ Truthy(call.command_name) /\ hist.outcome = "returned"
                     THEN 1 ELSE 0
        IN  /\ CountKind(TheLogger.handlers, "console") = 1
            /\ CountKind(TheLogger.handlers, "file") = nfile
            /\ Len(TheLogger.handlers) = 1 + nfile

C2_Witness ==
    /\ Ended
    /\ hist.outcome = "returned"
    /\ prev.outcome = "returned"
    /\ CountKind(prev.logger.handlers, "file") = 1
    /\ CountKind(TheLogger.handlers, "file") = 1
    /\ Len(TheLogger.handlers) = 2

\* The cutoff of the running reaper, from the claim: now minus N days
ClaimCutoff == call.current_time - call.days * SecondsPerDay

C4_ReaperNeverRaises ==
    ~(hist.outcome = "raised" /\ hist.reaperRuns > 0 /\ ~hist.reaperDone)

\* name has the form {command_name}-{YYYYMMDD}.log directly in the directory
IsLogFileName(name) == name.dir = LogDir /\ name.ext = ".log" /\ name.date # NoDate

\* C5 as stated: the reaper removes only files named {command_name}-{YYYYMMDD}.log.
C5_OnlyPatternFiles == \A n \in hist.reaped : IsLogFileName(n)

\* C5, amended: the reaper removes only regular files directly in the directory
\* whose name ends in .log; every other entry stays as it is.
C5_OnlyLogSuffix ==
    /\ \A e \in hist.listed :
          e.name \in hist.reaped =>
              e.kind = "file" /\ e.name.dir = call.log_dir /\ e.name.ext = ".log"
    /\ hist.reaped \subseteq Names(hist.listed)
    /\ dirExists =>
          \A e \in InitialEntries :
              ~(e.kind = "file" /\ e.name.dir = LogDir /\ e.name.ext = ".log")
                  => e \in files

C5_Witness ==
    /\ hist.reaperDone
    /\ \E n \in hist.reaped : ~IsLogFileName(n)
    /\ \E e \in files : e.name.dir # LogDir /\ e.mtime < ClaimCutoff
    /\ \E e \in files : e.kind = "dir" /\ e.name.ext = ".log" /\ e.mtime < ClaimCutoff
    /\ \E e \in files : e.name.ext = ".txt" /\ e.mtime < ClaimCutoff

\* C6: while the most recent call is one without a command identifier, it has
\* returned at once, has neither ensured the directory, run the reaper nor opened
\* a file, and the directory changes only by the hand of another process.
C6_NoCommandNoFiles ==
    [][ (call'.fn = "setup_logger" /\ call'.command_name \in {None, ""}) =>
            /\ pc' = "idle"
            /\ hist'.outcome = "returned"
            /\ ~hist'.dirEnsured
            /\ hist'.reaperRuns = 0
            /\ hist'.reaped = {}
            /\ hist'.opened = NoPath
            /\ (used'.removals = used.removals =>
                    (files' = files /\ dirExists' = dirExists)) ]_vars

C6_Witness ==
    /\ Ended
    /\ call.command_name = None
    /\ hist.outcome = "returned"
    /\ ~dirExists
    /\ files = {}
    /\ CountKind(TheLogger.handlers, "console") = 1

\* C7: a logger that holds a sink of setup_logger has its propagation flag false,
\* whatever the outcome of the call.
C7_PropagationFalse ==
    Ended => (Len(TheLogger.handlers) > 0 => TheLogger.propagate = FALSE)

\* C8: in a call with a command identifier the file is opened only after the
\* directory was ensured and the reaper has run once and returned; the reaper
\* runs only after the directory was ensured and never after the file is opened,
\* so the opened file is left in place by the call.
C8_Ordering ==
    call.fn = "setup_logger" =>
        /\ (pc = "open" \/ hist.opened # NoPath) =>
               (hist.dirEnsured /\ hist.reaperRuns = 1 /\ hist.reaperDone)
        /\ hist.reaperRuns > 0 => hist.dirEnsured
        /\ hist.reaperRuns <= 1
        /\ hist.opened # NoPath =>
               /\ pc = "idle"
               /\ hist.opened = LogFilePath(call.command_name, hist.date)
               /\ used.removals = 0 => hist.opened \in Names(files)

C8_Witness ==
    /\ Ended
    /\ hist.opened # NoPath
    /\ hist.reaped # {}
    /\ hist.opened \in Names(files)
    /\ CountKind(TheLogger.handlers, "file") = 1

\* C9: after a call the threshold of the logger and of each of its sinks is the
\* level resolved from the value LOG_LEVEL had when the call was made.
C9_Thresholds ==
    Ended =>
        /\ TheLogger.level = ResolveLevel(hist.env)
        /\ \A i \in 1..Len(TheLogger.handlers) :
              TheLogger.handlers[i].level = ResolveLevel(hist.env)

C9_Witness ==
    /\ Ended
    /\ prev.outcome = "returned"
    /\ CountKind(prev.logger.handlers, "file") = 1
    /\ CountKind(TheLogger.handlers, "file") = 1
    /\ prev.logger.level # TheLogger.level
    /\ env # hist.env

\* The most recent call repeats the call before it: same name, same command
\* identifier, same LOG_LEVEL, same day
Repeated ==
    /\ Ended
    /\ prev.outcome # "none"
    /\ prev.name = call.name
    /\ prev.command_name = call.command_name
    /\ prev.env = hist.env
    /\ prev.date = hist.date

====
